---------------------------- MODULE Spec2Model ----------------------------
(***************************************************************************)
(* Model of src/src/rust-version.rs: quadtree decomposition of a square    *)
(* grid with rectangular obstacles (build_quad), numbering of the free     *)
(* leaves (collect_free), the proximity graph (build_graph), the nearest   *)
(* free region of a point (find_nearest) and the shortest-path search      *)
(* (dijkstra), sequenced as in main.                                       *)
(*                                                                         *)
(* Numbers.  Centers are x + s/2 with x, s integers: they are kept in      *)
(* half units (2x + s), which is exact.  An edge weight is the f64         *)
(* sqrt(dx^2 + dy^2); it is kept in fixed point, rounded down, in units    *)
(* of 1/(2*WeightScale).  Squared distances of find_nearest are exact      *)
(* integers in quarter units.  f64::INFINITY is the value Infinity, which  *)
(* the comparisons Lt and Gt treat as larger than every finite cost.       *)
(* i32 overflow of x + w is outside the bounds explored here.              *)
(***************************************************************************)
EXTENDS Integers, Sequences, FiniteSets, Bags, TLC

VARIABLES
    n,          \* main: grid side length read by read_input
    obstacles,  \* main: Vec<Rect> read by read_input
    quad,       \* main: the tree returned by build_quad
    centers,    \* main: HashMap id -> center (half units)
    idCollect,  \* main: the counter passed to collect_free (first `id`)
    graph,      \* main: Vec<Vec<(usize, f64)>>, graph[i+1] is the list of node i
    idGraph,    \* main: the counter passed to build_graph (second `id`)
    ids,        \* the Vec<usize> build_graph returned for the root
    start,      \* main: find_nearest(n/2, 0)
    goal,       \* main: find_nearest(n/2, n-1)
    dist,       \* dijkstra: best known distances, dist[i+1] for node i
    heap,       \* dijkstra: the BinaryHeap, a bag of [cost, node]
    cost,       \* dijkstra: cost of the entry extracted last
    node,       \* dijkstra: node of the entry extracted last
    expanded,   \* history: expanded[i+1] = times node i had its edges relaxed (0, 1, 2 = more)
    result,     \* dijkstra's return value
    pc          \* position in main / dijkstra

vars == <<n, obstacles, quad, centers, idCollect, graph, idGraph, ids,
          start, goal, dist, heap, cost, node, expanded, result, pc>>

----------------------------------------------------------------------------
(* Bounds of the explored inputs *)

MaxN == 4          \* grid sizes 1..MaxN
MaxObs == 2        \* main: obstacle lists of length 0..MaxObs
WeightScale == 4   \* fixed-point resolution of an edge weight
MaxSplits == 2     \* arbitrary trees: at most this many Split nodes
TreeSize == 4      \* arbitrary trees: side of the root square
MaxNodes == 3      \* arbitrary graphs: number of nodes
MaxEdges == 3      \* arbitrary graphs: number of directed edges
MaxWeight == 2     \* arbitrary graphs: weights 0..MaxWeight

Infinity == -1     \* f64::INFINITY

----------------------------------------------------------------------------
(* Quad and Rect *)

Free(x, y, s) == [tag |-> "Free", x |-> x, y |-> y, s |-> s, ch |-> <<>>]

\* Blocked and Split carry no data in the code; x, y, s record the square the
\* node was built for (the arguments of the build_quad call).
Blocked(x, y, s) == [tag |-> "Blocked", x |-> x, y |-> y, s |-> s, ch |-> <<>>]

Split(x, y, s, children) ==
    [tag |-> "Split", x |-> x, y |-> y, s |-> s, ch |-> children]

NoQuad == [tag |-> "None", x |-> 0, y |-> 0, s |-> 0, ch |-> <<>>]

Rect(x, y, w, h) == [x |-> x, y |-> y, w |-> w, h |-> h]

\* lines 40-41 with > for >= and < for <=: touching edges count
intersectsClosed(rect, qx, qy, qs) ==
    ~(rect.x > qx + qs \/ rect.x + rect.w < qx \/
      rect.y > qy + qs \/ rect.y + rect.h < qy)

intersects(rect, qx, qy, qs) ==
    ~(rect.x >= qx + qs \/ rect.x + rect.w <= qx \/
      rect.y >= qy + qs \/ rect.y + rect.h <= qy)

covers(rect, qx, qy, qs) ==
    /\ rect.x <= qx /\ rect.x + rect.w >= qx + qs
    /\ rect.y <= qy /\ rect.y + rect.h >= qy + qs

\* lines 70-73 with the north-east child built at the south-east origin
ChildOriginsNeWrong(x, y, h) == << <<x, y + h>>, <<x + h, y>>, <<x, y>>, <<x + h, y>> >>

\* the four child squares of a Split, in the order [nw, ne, sw, se]
ChildOrigins(x, y, h) == << <<x, y + h>>, <<x + h, y + h>>, <<x, y>>, <<x + h, y>> >>

HalfSize(size) == size \div 2

RECURSIVE build_quad(_, _, _, _)
build_quad(obs, x, y, size) ==
    IF size <= 1
    THEN IF \E i \in DOMAIN obs : intersects(obs[i], x, y, size)
         THEN Blocked(x, y, size)
         ELSE Free(x, y, size)
    ELSE IF \E i \in DOMAIN obs : covers(obs[i], x, y, size)
    THEN Blocked(x, y, size)
    ELSE IF ~(\E i \in DOMAIN obs : intersects(obs[i], x, y, size))
    THEN Free(x, y, size)
    ELSE LET h == HalfSize(size)
             o == ChildOrigins(x, y, h)
         IN Split(x, y, size,
                  [k \in 1..4 |-> build_quad(obs, o[k][1], o[k][2], h)])

----------------------------------------------------------------------------
(* collect_free *)

Put(map, k, v) == [i \in (DOMAIN map) \cup {k} |-> IF i = k THEN v ELSE map[i]]

\* (x + s/2, y + s/2) in half units
Center(q) == <<2 * q.x + q.s, 2 * q.y + q.s>>

NextId(id) == id + 1

RECURSIVE collect_free_counting_blocked(_, _)
\* collect_free advancing the counter on Blocked leaves too
collect_free_counting_blocked(q, st) ==
    IF q.tag = "Free"
    THEN [id |-> NextId(st.id), map |-> Put(st.map, st.id, Center(q))]
    ELSE IF q.tag = "Split"
    THEN collect_free_counting_blocked(q.ch[4],
             collect_free_counting_blocked(q.ch[3],
                 collect_free_counting_blocked(q.ch[2],
                     collect_free_counting_blocked(q.ch[1], st))))
    ELSE [st EXCEPT !.id = NextId(st.id)]

RECURSIVE collect_free(_, _)
\* st = [id, map]: the two &mut arguments
collect_free(q, st) ==
    IF q.tag = "Free"
    THEN [id |-> NextId(st.id), map |-> Put(st.map, st.id, Center(q))]
    ELSE IF q.tag = "Split"
    THEN collect_free(q.ch[4],
             collect_free(q.ch[3],
                 collect_free(q.ch[2],
                     collect_free(q.ch[1], st))))
    ELSE st

----------------------------------------------------------------------------
(* build_graph *)

RECURSIVE SqrtSearch(_, _, _)
\* the largest r in lo..hi with r*r <= v
SqrtSearch(v, lo, hi) ==
    IF lo >= hi THEN lo
    ELSE LET mid == (lo + hi + 1) \div 2
         IN IF mid * mid <= v THEN SqrtSearch(v, mid, hi)
                              ELSE SqrtSearch(v, lo, mid - 1)

\* ((x2 - x1).powi(2) + (y2 - y1).powi(2)).sqrt(), fixed point
EuclidDist(c1, c2) ==
    LET d2 == (c2[1] - c1[1]) * (c2[1] - c1[1]) + (c2[2] - c1[2]) * (c2[2] - c1[2])
        v  == d2 * WeightScale * WeightScale
    IN SqrtSearch(v, 0, v)

\* graph[a].push((b, w))
PushEdge(g, a, b, w) == [g EXCEPT ![a + 1] = Append(@, <<b, w>>)]

\* lines 116-117, with one direction only
ConnectPairOneWay(g, id1, id2, d) == PushEdge(g, id1, id2, d)

\* lines 116-117: both directions are pushed
ConnectPair(g, id1, id2, d) == PushEdge(PushEdge(g, id1, id2, d), id2, id1, d)

\* line 109 with the inner range starting one too far
InnerStartOffByOne(i) == i + 2

\* line 109: the inner loop runs over i + 1..ids.len()
InnerStart(i) == i + 1

\* centers[&id] panics on a missing key, graph[id] on an index past the end
LookupPanics(id, cen, g) == id \notin DOMAIN cen \/ id >= Len(g)

RECURSIVE PairLoop(_, _, _, _, _)
\* lines 108-119: for i in 0..len { for j in i+1..len { ... } }, 1-based here.
\* st = [graph, panic]
PairLoop(idv, cen, st, i, j) ==
    IF st.panic \/ i > Len(idv) THEN st
    ELSE IF j > Len(idv) THEN PairLoop(idv, cen, st, i + 1, InnerStart(i + 1))
    ELSE LET id1 == idv[i]
             id2 == idv[j]
         IN IF LookupPanics(id1, cen, st.graph) \/ LookupPanics(id2, cen, st.graph)
            THEN [st EXCEPT !.panic = TRUE]
            ELSE PairLoop(idv, cen,
                          [st EXCEPT !.graph = ConnectPair(@, id1, id2,
                                          EuclidDist(cen[id1], cen[id2]))],
                          i, j + 1)

Flatten(parts) == parts[1] \o parts[2] \o parts[3] \o parts[4]

\* the part of the flattened vector that position i came from
PartOf(parts, i) ==
    IF i <= Len(parts[1]) THEN 1
    ELSE IF i <= Len(parts[1]) + Len(parts[2]) THEN 2
    ELSE IF i <= Len(parts[1]) + Len(parts[2]) + Len(parts[3]) THEN 3
    ELSE 4

RECURSIVE CrossLoop(_, _, _, _, _)
CrossLoop(parts, cen, st, i, j) ==
    LET idv == Flatten(parts)
    IN IF st.panic \/ i > Len(idv) THEN st
       ELSE IF j > Len(idv) THEN CrossLoop(parts, cen, st, i + 1, i + 2)
       ELSE IF PartOf(parts, i) = PartOf(parts, j)
       THEN CrossLoop(parts, cen, st, i, j + 1)
       ELSE IF LookupPanics(idv[i], cen, st.graph) \/ LookupPanics(idv[j], cen, st.graph)
       THEN [st EXCEPT !.panic = TRUE]
       ELSE CrossLoop(parts, cen,
                      [st EXCEPT !.graph = ConnectPair(@, idv[i], idv[j],
                                      EuclidDist(cen[idv[i]], cen[idv[j]]))],
                      i, j + 1)

\* lines 108-119 connecting only ids that come from different children
ConnectCrossChild(parts, cen, st) == CrossLoop(parts, cen, st, 1, 2)

\* lines 108-119 on the ids of all four children (parts), st = [graph, panic]
ConnectAll(parts, cen, st) == PairLoop(Flatten(parts), cen, st, 1, InnerStart(1))

RECURSIVE build_graph(_, _, _)
RECURSIVE VisitChildren(_, _, _, _, _)

\* lines 103-106: ids.extend(build_graph(child, ..)) for children k..4;
\* parts collects the Vec each child returned
VisitChildren(children, k, st, parts, cen) ==
    IF k > 4 THEN [st EXCEPT !.ids = parts]
    ELSE LET r == build_graph(children[k], st, cen)
         IN VisitChildren(children, k + 1, r, Append(parts, r.ids), cen)

\* st = [id, graph, ids, panic]: the &mut arguments, the returned Vec and
\* whether an index or key lookup panicked
build_graph(q, st, cen) ==
    IF st.panic THEN st
    ELSE IF q.tag = "Free"
    THEN [st EXCEPT !.id = NextId(st.id), !.ids = <<st.id>>]
    ELSE IF q.tag = "Split"
    THEN LET v == VisitChildren(q.ch, 1, st, <<>>, cen)
             lp == ConnectAll(v.ids, cen, [graph |-> v.graph, panic |-> v.panic])
         IN [id |-> v.id, graph |-> lp.graph, ids |-> Flatten(v.ids),
             panic |-> lp.panic]
    ELSE [st EXCEPT !.ids = <<>>]

----------------------------------------------------------------------------
(* find_nearest *)

\* (x - cx)^2 + (y - cy)^2 in quarter units
SqDist(x, y, c) == (2 * x - c[1]) * (2 * x - c[1]) + (2 * y - c[2]) * (2 * y - c[2])

\* find_nearest ending in .unwrap_or(0) instead of .unwrap()
find_nearest_or_zero(x, y, cen) ==
    IF DOMAIN cen = {} THEN {0}
    ELSE {k \in DOMAIN cen :
            \A m \in DOMAIN cen : SqDist(x, y, cen[k]) <= SqDist(x, y, cen[m])}

\* min_by over the HashMap's iteration order, which is arbitrary: every
\* minimiser can be the one returned.  Empty for an empty map (unwrap panics).
find_nearest(x, y, cen) ==
    {k \in DOMAIN cen :
        \A m \in DOMAIN cen : SqDist(x, y, cen[k]) <= SqDist(x, y, cen[m])}

----------------------------------------------------------------------------
(* dijkstra *)

Lt(a, b) == a # Infinity /\ (b = Infinity \/ a < b)
Gt(a, b) == Lt(b, a)

Entry(c, v) == [cost |-> c, node |-> v]

\* heap.pop() with State's Ord not reversed: an entry of greatest cost
MaxEntries(h) ==
    {e \in BagToSet(h) : \A f \in BagToSet(h) : ~Lt(e.cost, f.cost)}

\* heap.pop(): State's Ord compares costs only (reversed), so the entry
\* returned is one of least cost; which one among equals is the heap's choice
MinEntries(h) ==
    {e \in BagToSet(h) : \A f \in BagToSet(h) : ~Lt(f.cost, e.cost)}

\* line 164 with <= for <
ImprovesOrEqual(next, old) == ~Lt(old, next)

\* line 164: next < dist[neighbor]
Improves(next, old) == Lt(next, old)

RECURSIVE Relax(_, _, _, _)
\* lines 162-168 over edges[k..]; st = [dist, heap]
Relax(edges, k, c, st) ==
    IF k > Len(edges) THEN st
    ELSE LET neighbor == edges[k][1]
             weight == edges[k][2]
             next == c + weight
         IN IF Improves(next, st.dist[neighbor + 1])
            THEN Relax(edges, k + 1, c,
                       [dist |-> [st.dist EXCEPT ![neighbor + 1] = next],
                        heap |-> st.heap (+) SetToBag({Entry(next, neighbor)})])
            ELSE Relax(edges, k + 1, c, st)

IsStale(c, v, d) == Gt(c, d[v + 1])

None == [some |-> FALSE, val |-> 0]
Some(v) == [some |-> TRUE, val |-> v]
Pending == [some |-> FALSE, val |-> -2]

----------------------------------------------------------------------------
(* Inputs *)

Rects(size) ==
    {Rect(x, y, w, h) : x \in 0..(size - 1), y \in 0..(size - 1),
                        w \in 0..size, h \in 0..size}

\* the rectangles of positive width and height that lie inside the grid
RectsInGrid(size) ==
    {r \in Rects(size) : r.w > 0 /\ r.h > 0 /\ r.x + r.w <= size /\ r.y + r.h <= size}

ObstacleLists(size) ==
    UNION {[1..k -> RectsInGrid(size)] : k \in 0..MaxObs}

----------------------------------------------------------------------------
(* main *)

Init ==
    /\ n \in 1..MaxN
    /\ obstacles \in ObstacleLists(n)
    /\ quad = NoQuad
    /\ centers = <<>>
    /\ idCollect = 0
    /\ graph = <<>>
    /\ idGraph = 0
    /\ ids = <<>>
    /\ start = -1
    /\ goal = -1
    /\ dist = <<>>
    /\ heap = EmptyBag
    /\ cost = 0
    /\ node = -1
    /\ expanded = <<>>
    /\ result = Pending
    /\ pc = "build_quad"

\* line 190
BuildQuad ==
    /\ pc = "build_quad"
    /\ quad' = build_quad(obstacles, 0, 0, n)
    /\ pc' = "collect_free"
    /\ UNCHANGED <<n, obstacles, centers, idCollect, graph, idGraph, ids,
                   start, goal, dist, heap, cost, node, expanded, result>>

\* lines 192-194
CollectFree ==
    /\ pc = "collect_free"
    /\ LET r == collect_free(quad, [id |-> 0, map |-> <<>>])
       IN /\ centers' = r.map
          /\ idCollect' = r.id
    /\ pc' = "build_graph"
    /\ UNCHANGED <<n, obstacles, quad, graph, idGraph, ids,
                   start, goal, dist, heap, cost, node, expanded, result>>

\* lines 198-200
BuildGraph ==
    /\ pc = "build_graph"
    /\ LET g0 == [i \in 1..Cardinality(DOMAIN centers) |-> <<>>]
           r == build_graph(quad, [id |-> 0, graph |-> g0, ids |-> <<>>,
                                   panic |-> FALSE], centers)
       IN /\ graph' = r.graph
          /\ idGraph' = r.id
          /\ ids' = r.ids
          /\ pc' = IF r.panic THEN "panic" ELSE "find_start"
    /\ UNCHANGED <<n, obstacles, quad, centers, idCollect,
                   start, goal, dist, heap, cost, node, expanded, result>>

\* line 202
FindStart ==
    /\ pc = "find_start"
    /\ LET found == find_nearest(n \div 2, 0, centers)
       IN IF found = {}
          THEN /\ pc' = "panic"
               /\ start' = start
          ELSE /\ start' \in found
               /\ pc' = "find_goal"
    /\ UNCHANGED <<n, obstacles, quad, centers, idCollect, graph, idGraph, ids,
                   goal, dist, heap, cost, node, expanded, result>>

\* line 203
FindGoal ==
    /\ pc = "find_goal"
    /\ LET found == find_nearest(n \div 2, n - 1, centers)
       IN IF found = {}
          THEN /\ pc' = "panic"
               /\ goal' = goal
          ELSE /\ goal' \in found
               /\ pc' = "dijkstra"
    /\ UNCHANGED <<n, obstacles, quad, centers, idCollect, graph, idGraph, ids,
                   start, dist, heap, cost, node, expanded, result>>

\* lines 147-151; dist[start] panics when start is out of range
DijkstraStart ==
    /\ pc = "dijkstra"
    /\ IF start \in 0..(Len(graph) - 1)
       THEN /\ dist' = [i \in 1..Len(graph) |-> IF i = start + 1 THEN 0 ELSE Infinity]
            /\ heap' = SetToBag({Entry(0, start)})
            /\ expanded' = [i \in 1..Len(graph) |-> 0]
            /\ pc' = "loop"
       ELSE /\ pc' = "panic"
            /\ UNCHANGED <<dist, heap, expanded>>
    /\ UNCHANGED <<n, obstacles, quad, centers, idCollect, graph, idGraph, ids,
                   start, goal, cost, node, result>>

\* lines 153-171: one evaluation of `while let Some(..) = heap.pop()` and the
\* loop body, or the exit of the loop and `None`
DijkstraLoop ==
    /\ pc = "loop"
    /\ IF heap = EmptyBag
       THEN /\ result' = None
            /\ pc' = "done"
            /\ UNCHANGED <<dist, heap, cost, node, expanded>>
       ELSE \E e \in MinEntries(heap) :
            LET popped == heap (-) SetToBag({e})
            IN /\ cost' = e.cost
               /\ node' = e.node
               /\ IF e.node = goal
                  THEN /\ result' = Some(e.cost)
                       /\ pc' = "done"
                       /\ heap' = popped
                       /\ UNCHANGED <<dist, expanded>>
                  ELSE IF IsStale(e.cost, e.node, dist)
                  THEN /\ heap' = popped
                       /\ UNCHANGED <<dist, expanded, result, pc>>
                  ELSE LET r == Relax(graph[e.node + 1], 1, e.cost,
                                      [dist |-> dist, heap |-> popped])
                       IN /\ dist' = r.dist
                          /\ heap' = r.heap
                          /\ expanded' = [expanded EXCEPT ![e.node + 1] = IF @ < 2 THEN @ + 1 ELSE @]
                          /\ UNCHANGED <<result, pc>>
    /\ UNCHANGED <<n, obstacles, quad, centers, idCollect, graph, idGraph, ids,
                   start, goal>>

Next ==
    \/ BuildQuad
    \/ CollectFree
    \/ BuildGraph
    \/ FindStart
    \/ FindGoal
    \/ DijkstraStart
    \/ DijkstraLoop

Spec == Init /\ [][Next]_vars

----------------------------------------------------------------------------
(* build_quad alone, on longer obstacle lists *)

MaxQuadObs == 2    \* obstacle lists of length 0..MaxQuadObs

QuadInit ==
    /\ n \in 1..MaxN
    /\ obstacles \in UNION {[1..k -> Rects(n)] : k \in 0..MaxQuadObs}
    /\ quad = NoQuad
    /\ centers = <<>>
    /\ idCollect = 0
    /\ graph = <<>>
    /\ idGraph = 0
    /\ ids = <<>>
    /\ start = -1
    /\ goal = -1
    /\ dist = <<>>
    /\ heap = EmptyBag
    /\ cost = 0
    /\ node = -1
    /\ expanded = <<>>
    /\ result = Pending
    /\ pc = "build_quad"

QuadNext == BuildQuad

QuadSpec == QuadInit /\ [][QuadNext]_vars

----------------------------------------------------------------------------
(* collect_free and build_graph on arbitrary trees *)

\* <<k1, k2, k3, k4>> with sum k
Compositions(k) ==
    {c \in [1..4 -> 0..k] : c[1] + c[2] + c[3] + c[4] = k}

RECURSIVE TreesWith(_, _, _, _)
\* the trees with exactly k Split nodes on the square (x, y, s)
TreesWith(k, x, y, s) ==
    IF k = 0 THEN {Free(x, y, s), Blocked(x, y, s)}
    ELSE LET h == s \div 2
             o == << <<x, y + h>>, <<x + h, y + h>>, <<x, y>>, <<x + h, y>> >>
         IN UNION {
              {Split(x, y, s, <<a, b, c, d>>) :
                  a \in TreesWith(kk[1], o[1][1], o[1][2], h),
                  b \in TreesWith(kk[2], o[2][1], o[2][2], h),
                  c \in TreesWith(kk[3], o[3][1], o[3][2], h),
                  d \in TreesWith(kk[4], o[4][1], o[4][2], h)}
              : kk \in Compositions(k - 1)}

AllTrees == UNION {TreesWith(k, 0, 0, TreeSize) : k \in 0..MaxSplits}

TreeInit ==
    /\ n = TreeSize
    /\ obstacles = <<>>
    /\ quad \in AllTrees
    /\ centers = <<>>
    /\ idCollect = 0
    /\ graph = <<>>
    /\ idGraph = 0
    /\ ids = <<>>
    /\ start = -1
    /\ goal = -1
    /\ dist = <<>>
    /\ heap = EmptyBag
    /\ cost = 0
    /\ node = -1
    /\ expanded = <<>>
    /\ result = Pending
    /\ pc = "collect_free"

TreeNext == CollectFree \/ BuildGraph

TreeSpec == TreeInit /\ [][TreeNext]_vars

----------------------------------------------------------------------------
(* dijkstra on arbitrary graphs *)

EdgeLists(k) ==
    UNION {[1..m -> (0..(k - 1)) \X (0..(k - 1)) \X (0..MaxWeight)] : m \in 0..MaxEdges}

RECURSIVE GraphOf(_, _, _)
\* the adjacency lists after pushing edges[i..] = <<from, to, weight>> in order
GraphOf(edges, i, g) ==
    IF i > Len(edges) THEN g
    ELSE GraphOf(edges, i + 1, PushEdge(g, edges[i][1], edges[i][2], edges[i][3]))

DijkstraInit ==
    /\ \E k \in 1..MaxNodes :
          /\ graph \in {GraphOf(el, 1, [i \in 1..k |-> <<>>]) : el \in EdgeLists(k)}
          /\ start \in 0..(k - 1)
          /\ goal \in 0..(k - 1)
    /\ n = 0
    /\ obstacles = <<>>
    /\ quad = NoQuad
    /\ centers = <<>>
    /\ idCollect = 0
    /\ idGraph = 0
    /\ ids = <<>>
    /\ dist = <<>>
    /\ heap = EmptyBag
    /\ cost = 0
    /\ node = -1
    /\ expanded = <<>>
    /\ result = Pending
    /\ pc = "dijkstra"

DijkstraNext == DijkstraStart \/ DijkstraLoop

\* the program is sequential and runs on: a loop iteration that can be taken is taken
DijkstraSpec == DijkstraInit /\ [][DijkstraNext]_vars /\ WF_vars(DijkstraNext)

----------------------------------------------------------------------------
(* Vocabulary of the properties *)

IsPowerOfTwo(k) == \E e \in 0..k : 2 ^ e = k

Built == pc # "build_quad"

RECURSIVE LeavesOf(_)
\* the leaves of a tree, depth first, children in stored order
LeavesOf(q) ==
    IF q.tag = "Split"
    THEN LeavesOf(q.ch[1]) \o LeavesOf(q.ch[2]) \o LeavesOf(q.ch[3]) \o LeavesOf(q.ch[4])
    ELSE <<q>>

RECURSIVE SplitsOf(_)
SplitsOf(q) ==
    IF q.tag = "Split"
    THEN {q} \cup SplitsOf(q.ch[1]) \cup SplitsOf(q.ch[2])
             \cup SplitsOf(q.ch[3]) \cup SplitsOf(q.ch[4])
    ELSE {}

RECURSIVE DepthOf(_)
DepthOf(q) ==
    IF q.tag = "Split"
    THEN 1 + CHOOSE d \in {DepthOf(q.ch[k]) : k \in 1..4} :
                 \A k \in 1..4 : DepthOf(q.ch[k]) <= d
    ELSE 0

SelectTag(sq, tag) == SelectSeq(sq, LAMBDA q : q.tag = tag)

FreeLeaves(q) == SelectTag(LeavesOf(q), "Free")

\* the unit cells of a square, named by their lower-left corner
CellsOf(q) == (q.x .. (q.x + q.s - 1)) \X (q.y .. (q.y + q.s - 1))

GridCells == (0 .. (n - 1)) \X (0 .. (n - 1))

ChildrenTile(p) ==
    /\ \A k \in 1..4 : 2 * p.ch[k].s = p.s
    /\ UNION {CellsOf(p.ch[k]) : k \in 1..4} = CellsOf(p)
    /\ \A k, m \in 1..4 : k # m => CellsOf(p.ch[k]) \cap CellsOf(p.ch[m]) = {}

Max2(a, b) == IF a >= b THEN a ELSE b
Min2(a, b) == IF a <= b THEN a ELSE b

\* the rectangle and the square share a region of positive area (half-open)
Overlaps(r, q) ==
    /\ Max2(r.x, q.x) < Min2(r.x + r.w, q.x + q.s)
    /\ Max2(r.y, q.y) < Min2(r.y + r.h, q.y + q.s)

\* every point of the square is a point of the rectangle
Contains(r, q) ==
    /\ r.x <= q.x /\ q.x + q.s <= r.x + r.w
    /\ r.y <= q.y /\ q.y + q.s <= r.y + r.h

CellInRect(c, r) ==
    /\ r.x <= c[1] /\ c[1] < r.x + r.w
    /\ r.y <= c[2] /\ c[2] < r.y + r.h

PositiveObstacles == \A i \in DOMAIN obstacles : obstacles[i].w > 0 /\ obstacles[i].h > 0

(* C1: for a power-of-two grid, every unit cell of the grid lies in exactly
   one leaf of the tree build_quad returned, and the four children of every
   Split have half its side and tile its square without gap or overlap. *)
C1_LeavesPartitionGrid ==
    (Built /\ IsPowerOfTwo(n)) =>
        /\ quad.x = 0 /\ quad.y = 0 /\ quad.s = n
        /\ LET leaves == LeavesOf(quad)
           IN /\ \A c \in GridCells :
                    Cardinality({i \in DOMAIN leaves : c \in CellsOf(leaves[i])}) = 1
              /\ \A i \in DOMAIN leaves : leaves[i].tag \in {"Free", "Blocked"}
        /\ \A p \in SplitsOf(quad) : ChildrenTile(p)

C1_Witness ==
    /\ Built /\ n = 4 /\ DepthOf(quad) = 2
    /\ Len(SelectTag(LeavesOf(quad), "Free")) > 0
    /\ Len(SelectTag(LeavesOf(quad), "Blocked")) > 0

(* C2: for a power-of-two grid and obstacles of positive width and height,
   no obstacle overlaps the square of a Free leaf, and the square of a
   Blocked leaf is contained in one obstacle or is a unit cell that an
   obstacle overlaps; every unit cell of a Blocked leaf lies in an obstacle. *)
C2_LeafClassificationSound ==
    (Built /\ IsPowerOfTwo(n) /\ PositiveObstacles) =>
        \A i \in DOMAIN LeavesOf(quad) :
            LET leaf == LeavesOf(quad)[i]
            IN /\ leaf.tag = "Free" =>
                     \A k \in DOMAIN obstacles : ~Overlaps(obstacles[k], leaf)
               /\ leaf.tag = "Blocked" =>
                     /\ \/ \E k \in DOMAIN obstacles : Contains(obstacles[k], leaf)
                        \/ leaf.s = 1 /\ \E k \in DOMAIN obstacles : Overlaps(obstacles[k], leaf)
                     /\ \A c \in CellsOf(leaf) :
                           \E k \in DOMAIN obstacles : CellInRect(c, obstacles[k])

C2_Witness ==
    /\ Built /\ n = 4 /\ PositiveObstacles /\ Len(obstacles) = 2
    /\ \E i, j, k \in DOMAIN LeavesOf(quad) :
          /\ LeavesOf(quad)[i].tag = "Blocked" /\ LeavesOf(quad)[i].s = 2
          /\ LeavesOf(quad)[j].tag = "Blocked" /\ LeavesOf(quad)[j].s = 1
          /\ LeavesOf(quad)[k].tag = "Free"
    \* a square of side 2 that the two obstacles cover together, neither alone
    /\ \E p \in SplitsOf(quad) :
          /\ p.s = 2
          /\ \A k \in 1..4 : p.ch[k].tag = "Blocked"

(* C7: for a grid size that is not a power of two, build_quad does not
   return a tree in which the children of a Split fail to tile its square
   (it fails instead). *)
C7_NoUntiledTreeForOtherSizes ==
    (Built /\ ~IsPowerOfTwo(n)) =>
        /\ \A p \in SplitsOf(quad) : ChildrenTile(p)
        /\ LET leaves == LeavesOf(quad)
           IN \A c \in GridCells :
                 Cardinality({i \in DOMAIN leaves : c \in CellsOf(leaves[i])}) = 1

----------------------------------------------------------------------------
(* Properties of collect_free and build_graph *)

GraphBuilt == pc \notin {"build_quad", "collect_free", "build_graph"}

NumFree == Len(FreeLeaves(quad))

Ident(k) == [i \in 1..k |-> i - 1]

\* the number of entries for b in the list of a
EdgeCount(a, b) == Cardinality({i \in DOMAIN graph[a + 1] : graph[a + 1][i][1] = b})

\* the number of entries (b, w) in the list of a
EntryCount(a, b, w) == Cardinality({i \in DOMAIN graph[a + 1] : graph[a + 1][i] = <<b, w>>})

WeightsOf(a) == {graph[a + 1][i][2] : i \in DOMAIN graph[a + 1]}

RECURSIVE CommonSplits(_, _, _, _)
\* the Split nodes of q whose subtree holds both the a-th and the b-th Free
\* leaf (counted depth first from 0), when q's first Free leaf is number base
CommonSplits(q, base, a, b) ==
    IF q.tag # "Split" THEN 0
    ELSE LET k1 == Len(FreeLeaves(q.ch[1]))
             k2 == Len(FreeLeaves(q.ch[2]))
             k3 == Len(FreeLeaves(q.ch[3]))
             k4 == Len(FreeLeaves(q.ch[4]))
             inside(x) == base <= x /\ x < base + k1 + k2 + k3 + k4
         IN IF inside(a) /\ inside(b)
            THEN 1 + CommonSplits(q.ch[1], base, a, b)
                   + CommonSplits(q.ch[2], base + k1, a, b)
                   + CommonSplits(q.ch[3], base + k1 + k2, a, b)
                   + CommonSplits(q.ch[4], base + k1 + k2 + k3, a, b)
            ELSE 0

\* the squared distance of the centers of two leaves, in quarter units
LeafSqDist(p, q) ==
    (2 * p.x + p.s - 2 * q.x - q.s) * (2 * p.x + p.s - 2 * q.x - q.s)
  + (2 * p.y + p.s - 2 * q.y - q.s) * (2 * p.y + p.s - 2 * q.y - q.s)

\* w is the Euclidean distance of the two centers at the model's resolution
IsEuclid(w, p, q) ==
    /\ w >= 0
    /\ w * w <= LeafSqDist(p, q) * WeightScale * WeightScale
    /\ LeafSqDist(p, q) * WeightScale * WeightScale < (w + 1) * (w + 1)

(* C3: both passes, started at 0, number the Free leaves depth first in the
   order NW, NE, SW, SE: both counters end at the number k of Free leaves,
   the table's keys are 0..k-1 with key i holding the center of the i-th Free
   leaf, build_graph returns the ids 0..k-1 in that order, and no index or
   key lookup of build_graph fails. *)
C3_SameIdsInBothPasses ==
    /\ pc # "collect_free" =>
          /\ idCollect = NumFree
          /\ DOMAIN centers = 0..(NumFree - 1)
          /\ \A i \in 0..(NumFree - 1) :
                LET leaf == FreeLeaves(quad)[i + 1]
                IN centers[i] = <<2 * leaf.x + leaf.s, 2 * leaf.y + leaf.s>>
    /\ GraphBuilt =>
          /\ pc # "panic"
          /\ idGraph = NumFree
          /\ idGraph = idCollect
          /\ ids = Ident(NumFree)
          /\ Len(graph) = NumFree
          /\ \A a \in 0..(NumFree - 1) : \A i \in DOMAIN graph[a + 1] :
                graph[a + 1][i][1] \in DOMAIN centers

C3_Witness ==
    /\ GraphBuilt /\ pc # "panic"
    /\ DepthOf(quad) = 2
    /\ NumFree >= 3
    /\ Len(SelectTag(LeavesOf(quad), "Blocked")) >= 2
    /\ LeavesOf(quad)[1].tag = "Blocked"
    /\ idGraph = NumFree

(* C4: after build_graph the adjacency lists are symmetric with
   multiplicity: the list of a holds (b, w) as often as the list of b holds
   (a, w), and no list holds its own node. *)
C4_GraphSymmetric ==
    GraphBuilt =>
        \A a \in 0..(Len(graph) - 1) :
            /\ EdgeCount(a, a) = 0
            /\ \A b \in 0..(Len(graph) - 1) :
                  /\ EdgeCount(a, b) = EdgeCount(b, a)
                  /\ \A w \in WeightsOf(a) : EntryCount(a, b, w) = EntryCount(b, a, w)

C4_Witness ==
    /\ GraphBuilt /\ pc # "panic"
    /\ \E a, b \in 0..(Len(graph) - 1) :
          /\ a < b
          /\ EdgeCount(a, b) = 2
          /\ EdgeCount(b, a) = 2

(* C8: for two distinct free regions a and b, the list of a holds b once
   per Split node whose subtree contains both, and every such entry weighs
   the Euclidean distance of the two centers. *)
C8_OneEdgePerCommonSplit ==
    GraphBuilt =>
        \A a, b \in 0..(NumFree - 1) :
            a # b =>
                /\ EdgeCount(a, b) = CommonSplits(quad, 0, a, b)
                /\ \A i \in DOMAIN graph[a + 1] :
                      graph[a + 1][i][1] = b =>
                          IsEuclid(graph[a + 1][i][2],
                                   FreeLeaves(quad)[a + 1], FreeLeaves(quad)[b + 1])

C8_Witness ==
    /\ GraphBuilt /\ pc # "panic"
    /\ \E a, b, c \in 0..(NumFree - 1) :
          /\ EdgeCount(a, b) = 2
          /\ EdgeCount(a, c) = 1
          /\ CommonSplits(quad, 0, a, b) = 2

----------------------------------------------------------------------------
(* Properties of the pipeline of main *)

Searching == pc \in {"dijkstra", "loop", "done"}

\* row y of the grid is blocked from side to side
RowBlocked(y) ==
    \A x \in 0..(n - 1) : \E k \in DOMAIN obstacles : CellInRect(<<x, y>>, obstacles[k])

(* C6: with an empty region table find_nearest returns no id: main stops in
   the panic of the lookup, no start or goal is ever set, and dijkstra is
   only ever called with a start and a goal that are keys of the table. *)
C6_EmptyTableStopsAtLookup ==
    /\ DOMAIN centers = {} =>
          /\ pc \in {"build_quad", "collect_free", "build_graph", "find_start", "panic"}
          /\ start = -1 /\ goal = -1
          /\ result = Pending
    /\ Searching => start \in DOMAIN centers /\ goal \in DOMAIN centers
    /\ pc = "find_goal" => start \in DOMAIN centers

C6_Witness ==
    /\ pc = "panic"
    /\ n = 4
    /\ obstacles = <<Rect(0, 0, n, n)>>
    /\ quad = Blocked(0, 0, n)
    /\ DOMAIN centers = {}
    /\ start = -1

(* C9: in main the graph is complete (every two distinct free regions are
   joined by an edge), and dijkstra always returns Some: "no path" is not
   reachable, also when obstacles cut the grid between start and goal. *)
C9_PipelineAlwaysFindsPath ==
    /\ (GraphBuilt /\ pc # "panic") =>
          \A a, b \in DOMAIN centers : a # b => EdgeCount(a, b) >= 1
    /\ pc = "done" => result.some

C9_Witness ==
    /\ pc = "done" /\ result.some
    /\ start # goal
    /\ \E y \in 0..(n - 1) :
          /\ RowBlocked(y)
          /\ centers[start][2] < 2 * y
          /\ centers[goal][2] > 2 * y + 2

----------------------------------------------------------------------------
(* Properties of dijkstra *)

\* least of a non-empty set of costs, Infinity the greatest
LeastCost(S) == CHOOSE c \in S : \A d \in S : ~Lt(d, c)

Plus(c, w) == IF c = Infinity THEN Infinity ELSE c + w

RECURSIVE PathCosts(_, _, _)
\* d[v + 1] = least weight of a path of at most `rounds` more edges than d
\* accounts for, from the source of d to v
PathCosts(g, d, rounds) ==
    IF rounds = 0 THEN d
    ELSE PathCosts(g,
             [v \in 1..Len(g) |->
                 LeastCost({d[v]} \cup
                     {Plus(d[u], g[u][i][2]) :
                         <<u, i>> \in {p \in (1..Len(g)) \X (1..MaxEdges + 1) :
                                          /\ p[2] \in DOMAIN g[p[1]]
                                          /\ g[p[1]][p[2]][1] = v - 1}})],
             rounds - 1)

\* the least total weight of a path from s to t, Infinity when there is none
ShortestDistance(g, s, t) ==
    PathCosts(g, [v \in 1..Len(g) |-> IF v = s + 1 THEN 0 ELSE Infinity], Len(g))[t + 1]

(* C5: dijkstra returns Some(d) with d the least total weight of a path
   from start to goal when there is one (0 when start = goal) and None
   exactly when there is none; the cost returned is not larger than the
   recorded best distance of the goal. *)
C5_DijkstraShortest ==
    pc = "done" =>
        LET d == ShortestDistance(graph, start, goal)
        IN /\ d = Infinity <=> ~result.some
           /\ d # Infinity => result = Some(d)
           /\ result = None \/ result.some
           /\ result.some => ~Gt(result.val, dist[goal + 1])
           /\ start = goal => result = Some(0)

C5_Witness ==
    /\ pc = "done" /\ result.some
    /\ start # goal
    /\ \E i \in DOMAIN graph[start + 1] :
          /\ graph[start + 1][i][1] = goal
          /\ graph[start + 1][i][2] > result.val
    /\ BagCardinality(heap) >= 1

LoopStep == pc = "loop" /\ heap # EmptyBag

(* C10: the loop of dijkstra terminates; no node has its edges relaxed more
   than once; an extracted entry that costs more than the recorded distance
   of its node is dropped without relaxing; an entry is pushed only when it
   lowers the recorded distance of its node; the costs extracted never
   decrease; the recorded distance of a node that was expanded never
   changes. *)
C10_DijkstraTerminatesExpandingOnce ==
    /\ <>(pc = "done")
    /\ [](\A v \in DOMAIN expanded : expanded[v] <= 1)
    /\ [][LoopStep =>
            /\ cost' >= cost
            /\ (node' # goal /\ Gt(cost', dist[node' + 1])) =>
                   /\ dist' = dist
                   /\ expanded' = expanded
                   /\ heap' (+) SetToBag({Entry(cost', node')}) = heap
            /\ \A e \in BagToSet(heap') :
                   CopiesIn(e, heap') > CopiesIn(e, heap) =>
                       /\ Lt(e.cost, dist[e.node + 1])
                       /\ ~Gt(dist'[e.node + 1], e.cost)
            /\ \A v \in DOMAIN expanded :
                   expanded[v] > 0 => dist'[v] = dist[v]
         ]_vars

\* a stale entry has just been extracted and dropped, after its node was expanded
C10_Witness ==
    /\ pc = "loop"
    /\ node # -1 /\ node # goal
    /\ Gt(cost, dist[node + 1])
    /\ expanded[node + 1] = 1

=============================================================================
